---- MODULE Spec2Model ----
(***************************************************************************)
(* Authentication layer of SolverSpace: UsernameValidator                  *)
(* (solver_space/utils/validators.py) and AuthState                        *)
(* (solver_space/models/user.py).                                          *)
(*                                                                         *)
(* Representation.  A Python str is a sequence of characters; a character  *)
(* is a one-character TLA+ string, or a name for a character outside       *)
(* ASCII ("FW_a" = U+FF41 fullwidth a, "LIG_fi" = U+FB01, "CYR_e" =        *)
(* U+0435, "NL" = newline).  A fixed message of the program is a sequence  *)
(* of one token holding the whole message.  Optional[T] is a sequence of   *)
(* length 0 (None) or 1 (the value).                                       *)
(***************************************************************************)
EXTENDS Integers, Sequences, FiniteSets, TLC

None == <<>>

Some(x) == <<x>>

Get(o) == o[1]

\* Python truthiness of an Optional[str]: None and "" are falsy.
Truthy(o) == o /= None /\ Get(o) /= <<>>

----------------------------------------------------------------------------
(* Characters and the str methods the program uses on them.                *)

AsciiLowerSeq ==
    << "a","b","c","d","e","f","g","h","i","j","k","l","m",
       "n","o","p","q","r","s","t","u","v","w","x","y","z" >>

AsciiUpperSeq ==
    << "A","B","C","D","E","F","G","H","I","J","K","L","M",
       "N","O","P","Q","R","S","T","U","V","W","X","Y","Z" >>

Range(s) == { s[i] : i \in DOMAIN s }

AsciiLower == Range(AsciiLowerSeq)

AsciiUpper == Range(AsciiUpperSeq)

AsciiLetter == AsciiLower \cup AsciiUpper

Digit == { "0","1","2","3","4","5","6","7","8","9" }

\* Letters outside ASCII that the model draws inputs from.
NonAsciiLetter == { "FW_a", "LIG_fi", "CYR_e" }

\* str.isalpha / islower / isupper / isdigit / isalnum on one character.
isalpha(c) == c \in AsciiLetter \cup NonAsciiLetter

islower(c) == c \in AsciiLower \cup NonAsciiLetter

isupper(c) == c \in AsciiUpper

isdigit(c) == c \in Digit

isalnum(c) == isalpha(c) \/ isdigit(c)

\* str.lower on one character (only ASCII capitals change in the alphabet).
LowerChar(c) ==
    IF c \in AsciiUpper
    THEN AsciiLowerSeq[CHOOSE i \in DOMAIN AsciiUpperSeq : AsciiUpperSeq[i] = c]
    ELSE c

lower(s) == [ i \in DOMAIN s |-> LowerChar(s[i]) ]

\* str.upper on one character of the alphabet.
UpperChar(c) ==
    IF c \in AsciiLower
    THEN AsciiUpperSeq[CHOOSE i \in DOMAIN AsciiLowerSeq : AsciiLowerSeq[i] = c]
    ELSE c

\* Concatenation of a sequence of strings.
RECURSIVE Flatten(_)
Flatten(ss) == IF ss = <<>> THEN <<>> ELSE Head(ss) \o Flatten(Tail(ss))

\* s[:n]
Take(s, n) == IF Len(s) <= n THEN s ELSE SubSeq(s, 1, n)

\* Every character of s lies in class C.
AllIn(s, C) == \A i \in DOMAIN s : s[i] \in C

----------------------------------------------------------------------------
(* UsernameValidator                                                       *)

MIN_LENGTH == 3

MAX_LENGTH == 30

ERROR_LENGTH == << "Username must be between 3-30 characters" >>

ERROR_FORMAT ==
    << "Username must start with a letter and contain only letters, numbers, and underscores" >>

ERROR_RESERVED == << "This username is reserved" >>

reserved_words ==
    { << "a","d","m","i","n" >>,
      << "a","d","m","i","n","i","s","t","r","a","t","o","r" >>,
      << "r","o","o","t" >>,
      << "s","u","d","o" >>,
      << "w","w","w" >>,
      << "a","p","i" >>,
      << "m","a","i","l" >>,
      << "s","m","t","p" >>,
      << "s","u","p","p","o","r","t" >>,
      << "h","e","l","p" >>,
      << "i","n","f","o" >>,
      << "c","o","n","t","a","c","t" >>,
      << "l","o","g","i","n" >>,
      << "l","o","g","o","u","t" >>,
      << "s","i","g","n","i","n" >>,
      << "s","i","g","n","u","p" >>,
      << "r","e","g","i","s","t","e","r" >>,
      << "p","a","s","s","w","o","r","d" >> }

\* unicodedata.normalize('NFKC', c) for one character: the compatibility
\* characters decompose to ASCII, every other character is its own form.
NFKCChar(c) ==
    CASE c = "FW_a"   -> << "a" >>
      [] c = "LIG_fi" -> << "f", "i" >>
      [] OTHER        -> << c >>

_normalize_for_storage(username) ==
    Flatten([ i \in DOMAIN username |-> NFKCChar(username[i]) ])

WordChar == AsciiLetter \cup Digit \cup { "_" }

\* The body of PATTERN, without the anchors: [a-zA-Z][a-zA-Z0-9_]{2,29}
PatternBody(s) ==
    /\ Len(s) >= 3
    /\ Len(s) <= 30
    /\ s[1] \in AsciiLetter
    /\ AllIn(s, WordChar)

\* re.match(PATTERN, s): "$" matches at the end of the string and also just
\* before a newline that ends the string.
MatchesPATTERN(s) ==
    \/ PatternBody(s)
    \/ /\ Len(s) >= 1
       /\ s[Len(s)] = "NL"
       /\ PatternBody(SubSeq(s, 1, Len(s) - 1))

\* validate looking the name up in reserved_words as it is spelled.
validate_caseSensitive(username) ==
    IF username = <<>> \/ Len(username) < MIN_LENGTH \/ Len(username) > MAX_LENGTH
    THEN [ valid |-> FALSE, message |-> ERROR_LENGTH ]
    ELSE IF ~ MatchesPATTERN(_normalize_for_storage(username))
    THEN [ valid |-> FALSE, message |-> ERROR_FORMAT ]
    ELSE IF _normalize_for_storage(username) \in reserved_words
    THEN [ valid |-> FALSE, message |-> ERROR_RESERVED ]
    ELSE [ valid |-> TRUE, message |-> <<>> ]

\* validate with the format and reserved-word rules ahead of the length rule.
validate_formatFirst(username) ==
    IF ~ MatchesPATTERN(_normalize_for_storage(username))
    THEN [ valid |-> FALSE, message |-> ERROR_FORMAT ]
    ELSE IF lower(_normalize_for_storage(username)) \in reserved_words
    THEN [ valid |-> FALSE, message |-> ERROR_RESERVED ]
    ELSE IF username = <<>> \/ Len(username) < MIN_LENGTH \/ Len(username) > MAX_LENGTH
    THEN [ valid |-> FALSE, message |-> ERROR_LENGTH ]
    ELSE [ valid |-> TRUE, message |-> <<>> ]

validate(username) ==
    IF username = <<>> \/ Len(username) < MIN_LENGTH \/ Len(username) > MAX_LENGTH
    THEN [ valid |-> FALSE, message |-> ERROR_LENGTH ]
    ELSE IF ~ MatchesPATTERN(_normalize_for_storage(username))
    THEN [ valid |-> FALSE, message |-> ERROR_FORMAT ]
    ELSE IF lower(_normalize_for_storage(username)) \in reserved_words
    THEN [ valid |-> FALSE, message |-> ERROR_RESERVED ]
    ELSE [ valid |-> TRUE, message |-> <<>> ]

\* re.sub(r'[^a-zA-Z0-9_]', '_', s)
ReplaceUnsafe(s) == [ i \in DOMAIN s |-> IF s[i] \in WordChar THEN s[i] ELSE "_" ]

\* sanitize cutting to MAX_LENGTH before it adds the prefix.
sanitize_truncateFirst(username) ==
    IF username = <<>>
    THEN << "u" >>
    ELSE LET replaced == Take(ReplaceUnsafe(_normalize_for_storage(username)), MAX_LENGTH)
         IN  IF ~ isalpha(replaced[1]) THEN << "u" >> \o replaced ELSE replaced

sanitize(username) ==
    IF username = <<>>
    THEN << "u" >>
    ELSE LET replaced == ReplaceUnsafe(_normalize_for_storage(username))
             prefixed == IF ~ isalpha(replaced[1]) THEN << "u" >> \o replaced
                         ELSE replaced
         IN  Take(prefixed, MAX_LENGTH)

----------------------------------------------------------------------------
(* Password, email and message helpers of AuthState                        *)

Check(passed, message) == [ passed |-> passed, message |-> message ]

\* The checks with the length requirement as "more than 8".
_get_password_checks_strictLength(password) ==
    << Check(\E i \in DOMAIN password : islower(password[i]), << "One lowercase letter" >>),
       Check(\E i \in DOMAIN password : isupper(password[i]), << "One uppercase letter" >>),
       Check(\E i \in DOMAIN password : isdigit(password[i]), << "One number" >>),
       Check(\E i \in DOMAIN password : ~ isalnum(password[i]), << "One special character" >>),
       Check(Len(password) > 8, << "Minimum 8 characters" >>) >>

_get_password_checks(password) ==
    << Check(\E i \in DOMAIN password : islower(password[i]), << "One lowercase letter" >>),
       Check(\E i \in DOMAIN password : isupper(password[i]), << "One uppercase letter" >>),
       Check(\E i \in DOMAIN password : isdigit(password[i]), << "One number" >>),
       Check(\E i \in DOMAIN password : ~ isalnum(password[i]), << "One special character" >>),
       Check(Len(password) >= 8, << "Minimum 8 characters" >>) >>

\* The result dict built by _validate_password (lines 98-106), cache aside.
PasswordState(password) ==
    LET checks == _get_password_checks(password)
        all_passed == \A i \in DOMAIN checks : checks[i].passed
    IN  [ valid |-> all_passed,
          message |-> IF all_passed THEN <<>> ELSE << "Password requirements not met" >>,
          checks |-> checks,
          show_requirements |-> Len(password) > 0 ]

empty_password_state ==
    [ valid |-> TRUE, message |-> <<>>, checks |-> <<>>, show_requirements |-> FALSE ]

empty_validation_state == [ valid |-> TRUE, message |-> <<>> ]

EmailLocalChar == AsciiLetter \cup Digit \cup { ".", "_", "%", "+", "-" }

EmailDomainChar == AsciiLetter \cup Digit \cup { ".", "-" }

\* EMAIL_REGEX without the anchors:
\* [a-zA-Z0-9._%+-]+@[a-zA-Z0-9.-]+\.[a-zA-Z]{2,}
EmailBody(s) ==
    \E i \in DOMAIN s : \E j \in DOMAIN s :
        /\ s[i] = "@"
        /\ s[j] = "."
        /\ 1 < i
        /\ i + 1 < j
        /\ j + 2 <= Len(s)
        /\ AllIn(SubSeq(s, 1, i - 1), EmailLocalChar)
        /\ AllIn(SubSeq(s, i + 1, j - 1), EmailDomainChar)
        /\ AllIn(SubSeq(s, j + 1, Len(s)), AsciiLetter)

MatchesEMAIL_REGEX(s) ==
    \/ EmailBody(s)
    \/ /\ Len(s) >= 1
       /\ s[Len(s)] = "NL"
       /\ EmailBody(SubSeq(s, 1, Len(s) - 1))

\* email_validation_state as a function of the field and its touched flag.
EmailState(touched, value) ==
    IF ~ touched THEN [ valid |-> TRUE, message |-> <<>> ]
    ELSE IF value = <<>> THEN [ valid |-> FALSE, message |-> << "Email is required" >> ]
    ELSE IF ~ MatchesEMAIL_REGEX(value)
    THEN [ valid |-> FALSE, message |-> << "Please enter a valid email address" >> ]
    ELSE [ valid |-> TRUE, message |-> <<>> ]

\* email.split('@')[0]
EmailPrefix(e) ==
    IF \E i \in DOMAIN e : e[i] = "@"
    THEN SubSeq(e, 1, (CHOOSE i \in DOMAIN e :
                          e[i] = "@" /\ \A j \in 1..(i - 1) : e[j] /= "@") - 1)
    ELSE e

\* str.split(". "): the pieces between the occurrences of ". ", left to right.
RECURSIVE SplitDotSpace(_)
SplitDotSpace(s) ==
    IF \E i \in 1..(Len(s) - 1) : s[i] = "." /\ s[i + 1] = " "
    THEN LET k == CHOOSE i \in 1..(Len(s) - 1) :
                     /\ s[i] = "." /\ s[i + 1] = " "
                     /\ \A j \in 1..(i - 1) : ~ (s[j] = "." /\ s[j + 1] = " ")
         IN  << SubSeq(s, 1, k - 1) >> \o SplitDotSpace(SubSeq(s, k + 2, Len(s)))
    ELSE << s >>

\* "\n".join(parts)
RECURSIVE JoinNL(_)
JoinNL(parts) ==
    IF parts = <<>> THEN <<>>
    ELSE IF Len(parts) = 1 THEN Head(parts)
    ELSE Head(parts) \o << "NL" >> \o JoinNL(Tail(parts))

_format_password_requirements(error_message) ==
    LET requirements == SplitDotSpace(error_message)
    IN  << "Password requirements:", "NL" >>
        \o JoinNL([ i \in DOMAIN requirements |-> << "BULLET", " " >> \o requirements[i] ])

----------------------------------------------------------------------------
(* The validation caches: a dict in insertion order, as a sequence of      *)
(* key/value entries.                                                      *)

CACHE_LIMIT == 1000

CacheHas(cache, key) == \E i \in DOMAIN cache : cache[i].key = key

\* The lookup answering with the entry inserted last.
CacheGet_newest(cache, key) == cache[Len(cache)].val

CacheGet(cache, key) == cache[CHOOSE i \in DOMAIN cache : cache[i].key = key].val

\* The insertion without the size limit.
CachePut_unbounded(cache, key, val) == Append(cache, [ key |-> key, val |-> val ])

\* cache[key] = val for a key that is absent, then the size limit: one
\* pop of the first key in iteration order.
CachePut(cache, key, val) ==
    LET added == Append(cache, [ key |-> key, val |-> val ])
    IN  IF Len(added) > CACHE_LIMIT THEN Tail(added) ELSE added

\* _validate_username caching whatever the length of the username.
_validate_username_cachingAll(cache, name) ==
    IF CacheHas(cache, name)
    THEN [ result |-> CacheGet(cache, name), cache |-> cache ]
    ELSE LET r == validate(name)
         IN  [ result |-> r, cache |-> CachePut(cache, name, r) ]

\* _validate_username: the result returned and the cache afterwards.
_validate_username(cache, name) ==
    IF CacheHas(cache, name)
    THEN [ result |-> CacheGet(cache, name), cache |-> cache ]
    ELSE LET r == validate(name)
         IN  [ result |-> r,
               cache |-> IF Len(name) > 2 THEN CachePut(cache, name, r) ELSE cache ]

\* _validate_password: the result returned and the cache afterwards.
_validate_password(cache, pw) ==
    IF CacheHas(cache, pw)
    THEN [ result |-> CacheGet(cache, pw), cache |-> cache ]
    ELSE LET r == PasswordState(pw)
         IN  [ result |-> r,
               cache |-> IF Len(pw) > 4 THEN CachePut(cache, pw, r) ELSE cache ]

----------------------------------------------------------------------------
(* Inputs: the strings the client can type or submit and the answers the   *)
(* backend can give.                                                       *)

\* What the client types into the fields of the signup form.
FieldEmails == { << "a","@","b",".","c","o" >> }

FieldUsernames == { << "a","b","c" >> }

FieldPasswords == { << "A","a","1","!","a","a","a","a" >> }

\* What a submitted form hands over as form_data.
FormEmails == { << "a","@","b",".","c","o" >>, <<>> }

FormUsernames ==
    { << "a","b","c" >>, << "w","w","w" >>, << "a","b" >>, << "FW_a","b","c" >> }

FormPasswords == { << "A","a","1","!","a","a","a","a" >> }

\* Identities the backend can return.
UserIds == { "uid1" }

\* Usernames a profile row can hold (None: the column is null).
ProfileUsernames == { None, Some(<< "a","b","c" >>) }

\* The most sentences a backend weak-password message has in the model.
MaxRequirements == 2

Sentence(k) == IF k = 1 THEN << "At least 8 characters" >> ELSE << "One digit" >>

RECURSIVE WeakPasswordMessage(_)
WeakPasswordMessage(n) ==
    IF n = 1 THEN Sentence(1)
    ELSE WeakPasswordMessage(n - 1) \o << ".", " " >> \o Sentence(n)

\* e.message of an AuthWeakPasswordError: 1..MaxRequirements sentences
\* separated by ". ".
WeakPasswordMessages == { WeakPasswordMessage(n) : n \in 1..MaxRequirements }

\* str(e) of the exception a failing sign_out raises.
SignOutErrors == { << "sign out failed" >> }

----------------------------------------------------------------------------
(* State                                                                   *)

VARIABLES
    user, processing, error, success_message, temp_email, temp_username,
    email, username, password,
    email_touched, username_touched, password_touched,
    username_cache, password_cache,
    pc,     \* "idle", or the backend call the running handler is suspended at
    inv     \* the handler invocation that is running or ran last

authVars == << user, processing, error, success_message >>

tempVars == << temp_email, temp_username >>

fieldVars == << email, username, password,
                email_touched, username_touched, password_touched >>

cacheVars == << username_cache, password_cache >>

vars == << authVars, tempVars, fieldVars, cacheVars, pc, inv >>

User(id, mail, name) == [ id |-> id, email |-> mail, username |-> name ]

NoArgs == [ email |-> <<>>, password |-> <<>>, username |-> <<>> ]

Args(e, p, u) == [ email |-> e, password |-> p, username |-> u ]

\* A backend call: which one, what was handed to it, how it ended, and the
\* message of the exception when it raised one whose message the program reads.
CallMsg(name, arg, out, msg) == [ name |-> name, arg |-> arg, out |-> out, msg |-> msg ]

Call(name, arg, out) == CallMsg(name, arg, out, <<>>)

\* Events a handler returns to the framework.
Toast(status, message) == [ kind |-> "toast", status |-> status, arg |-> message ]

Redirect(path) == [ kind |-> "redirect", status |-> "", arg |-> << path >> ]

\* The record of an invocation at its start: user0 is the value of user
\* when it was invoked, auth_user the identity held in the handler's local
\* auth_response / response, ret the value a read of a computed var returns.
NewInv(op, args) ==
    [ op |-> op, args |-> args, calls |-> <<>>, result |-> "running",
      events |-> <<>>, user0 |-> user, auth_user |-> None, ret |-> None ]

Logged(c) == [ inv EXCEPT !.calls = Append(@, c) ]

\* The invocation record when the handler returns events after call c.
Returned(c, events) ==
    [ inv EXCEPT !.calls = Append(@, c), !.result = "returned", !.events = events ]

\* The invocation record when an exception leaves the handler after call c.
Raised(c) == [ inv EXCEPT !.calls = Append(@, c), !.result = "raised" ]

Init ==
    /\ user = None
    /\ processing = FALSE
    /\ error = None
    /\ success_message = None
    /\ temp_email = None
    /\ temp_username = None
    /\ email = <<>>
    /\ username = <<>>
    /\ password = <<>>
    /\ email_touched = FALSE
    /\ username_touched = FALSE
    /\ password_touched = FALSE
    /\ username_cache = <<>>
    /\ password_cache = <<>>
    /\ pc = "idle"
    /\ inv = [ op |-> "init", args |-> NoArgs, calls |-> <<>>, result |-> "returned",
               events |-> <<>>, user0 |-> None, auth_user |-> None, ret |-> None ]

----------------------------------------------------------------------------
(* Field handlers and the computed validation state                        *)

FieldChangeError_kept == error

\* self.error = None in the three field handlers (lines 148, 154, 160).
FieldChangeError == None

\* handle_email_change for a value typed from the set values.
EmailChange(values) ==
    /\ pc = "idle"
    /\ \E value \in values :
          /\ email' = value
          /\ inv' = [ NewInv("handle_email_change", Args(value, <<>>, <<>>))
                        EXCEPT !.result = "returned" ]
    /\ email_touched' = TRUE
    /\ error' = FieldChangeError
    /\ UNCHANGED << user, processing, success_message, tempVars, username, password,
                    username_touched, password_touched, cacheVars, pc >>

\* handle_username_change for a value typed from the set values.
UsernameChange(values) ==
    /\ pc = "idle"
    /\ \E value \in values :
          /\ username' = value
          /\ inv' = [ NewInv("handle_username_change", Args(<<>>, <<>>, value))
                        EXCEPT !.result = "returned" ]
    /\ username_touched' = TRUE
    /\ error' = FieldChangeError
    /\ UNCHANGED << user, processing, success_message, tempVars, email, password,
                    email_touched, password_touched, cacheVars, pc >>

\* handle_password_change for a value typed from the set values.
PasswordChange(values) ==
    /\ pc = "idle"
    /\ \E value \in values :
          /\ password' = value
          /\ inv' = [ NewInv("handle_password_change", Args(<<>>, value, <<>>))
                        EXCEPT !.result = "returned" ]
    /\ password_touched' = TRUE
    /\ error' = FieldChangeError
    /\ UNCHANGED << user, processing, success_message, tempVars, email, username,
                    email_touched, username_touched, cacheVars, pc >>

handle_email_change == EmailChange(FieldEmails)

handle_username_change == UsernameChange(FieldUsernames)

handle_password_change == PasswordChange(FieldPasswords)

\* The read validating every field, touched or not.
FormValidation_ignoringTouched(et, ut, pt) ==
    LET u == _validate_username(username_cache, username)
        p == _validate_password(password_cache, password)
    IN  [ state |-> [ username |-> u.result,
                      password |-> p.result,
                      email |-> EmailState(TRUE, email) ],
          username_cache |-> u.cache,
          password_cache |-> p.cache ]

\* What one read of the computed var form_validation_state returns for the
\* given touched flags, and the caches as the read leaves them.
FormValidation(et, ut, pt) ==
    LET u == _validate_username(username_cache, username)
        p == _validate_password(password_cache, password)
    IN  [ state |-> [ username |-> IF ut THEN u.result ELSE empty_validation_state,
                      password |-> IF pt THEN p.result ELSE empty_password_state,
                      email |-> EmailState(et, email) ],
          username_cache |-> IF ut THEN u.cache ELSE username_cache,
          password_cache |-> IF pt THEN p.cache ELSE password_cache ]

\* The framework reads the computed var to render the form.
form_validation_state ==
    /\ pc = "idle"
    /\ LET f == FormValidation(email_touched, username_touched, password_touched)
       IN  /\ username_cache' = f.username_cache
           /\ password_cache' = f.password_cache
    /\ inv' = [ NewInv("form_validation_state", NoArgs)
                  EXCEPT !.result = "returned",
                         !.ret = Some(FormValidation(email_touched, username_touched,
                                                     password_touched).state) ]
    /\ UNCHANGED << authVars, tempVars, fieldVars, pc >>

FinallyProcessing_skipped == TRUE

\* finally: self.processing = False (lines 255-256, 348-349, 387-388).
FinallyProcessing == FALSE

----------------------------------------------------------------------------
(* on_load                                                                 *)

OnLoadFailedUser_kept == user

\* except Exception: self.user = None (lines 201-202).
OnLoadFailedUser == None

\* supabase.auth.get_session() and the User built from it (lines 188-196).
on_load ==
    /\ pc = "idle"
    /\ LET i == NewInv("on_load", NoArgs)
       IN  \/ /\ \E out \in { "raise", "bad_user" } :
                    inv' = [ i EXCEPT !.calls = << Call("get_session", NoArgs, out) >>,
                                      !.result = "returned" ]
              /\ user' = OnLoadFailedUser
              /\ pc' = "idle"
           \/ /\ inv' = [ i EXCEPT !.calls = << Call("get_session", NoArgs, "no_session") >>,
                                   !.result = "returned" ]
              /\ user' = user
              /\ pc' = "idle"
           \/ /\ \E id \in UserIds : \E mail \in FormEmails \ { <<>> } :
                    /\ user' = Some(User(id, mail, None))
                    /\ inv' = [ i EXCEPT !.calls = << Call("get_session", NoArgs, "ok") >>,
                                         !.auth_user = Some(User(id, mail, None)) ]
              /\ pc' = "on_load_profile"
    /\ UNCHANGED << processing, error, success_message, tempVars, fieldVars, cacheVars >>

\* The profile lookup of on_load (lines 198-202).
on_load_profile ==
    /\ pc = "on_load_profile"
    /\ \/ /\ user' = OnLoadFailedUser
          /\ inv' = Returned(Call("profiles_select_id", NoArgs, "raise"), <<>>)
       \/ /\ user' = user
          /\ inv' = Returned(Call("profiles_select_id", NoArgs, "no_data"), <<>>)
       \/ \E name \in ProfileUsernames :
             /\ user' = Some([ Get(user) EXCEPT !.username = name ])
             /\ inv' = Returned(Call("profiles_select_id", NoArgs, "data"), <<>>)
    /\ pc' = "idle"
    /\ UNCHANGED << processing, error, success_message, tempVars, fieldVars, cacheVars >>

----------------------------------------------------------------------------
(* login                                                                   *)

INVALID_LOGIN == << "Invalid email or password" >>

\* handle_login_form -> _login, up to the sign-in call (lines 419-425, 204-208).
handle_login_form ==
    /\ pc = "idle"
    /\ \E e \in FormEmails : \E p \in FormPasswords :
          inv' = NewInv("login", Args(e, p, <<>>))
    /\ processing' = TRUE
    /\ error' = None
    /\ pc' = "login_sign_in"
    /\ UNCHANGED << user, success_message, tempVars, fieldVars, cacheVars >>

\* The events of a successful login (lines 246-251).
LoginWelcome(name) ==
    << Toast("success", << "Welcome " >> \o (IF Truthy(name) THEN Get(name) ELSE << "back" >>)
                        \o << "!" >>),
       Redirect("/") >>

LoginFailedUser_cleared == None

\* What a sign-in that does not yield a user record does to the session
\* (lines 217-219 and 252-254): the value of user afterwards.
LoginFailedUser == user

\* sign_in_with_password and its outcomes (lines 209-226, 252-256).
login_sign_in ==
    /\ pc = "login_sign_in"
    /\ LET arg == Args(inv.args.email, inv.args.password, <<>>)
       IN  \/ /\ \E out \in { "raise", "no_user", "bad_user" } :
                    inv' = Returned(Call("sign_in", arg, out),
                                    << Toast("error", INVALID_LOGIN) >>)
              /\ error' = Some(INVALID_LOGIN)
              /\ user' = LoginFailedUser
              /\ processing' = FinallyProcessing
              /\ pc' = "idle"
           \/ /\ \E id \in UserIds :
                    /\ user' = Some(User(id, inv.args.email, None))
                    /\ inv' = [ Logged(Call("sign_in", arg, "ok"))
                                  EXCEPT !.auth_user = Some(User(id, inv.args.email, None)) ]
              /\ pc' = "login_profile"
              /\ UNCHANGED << processing, error >>
    /\ UNCHANGED << success_message, tempVars, fieldVars, cacheVars >>

\* The username login gives the user when the profile row is missing or the
\* profile call fails (lines 235 and 244).
LoginFallbackUsername == Some(EmailPrefix(inv.args.email))

\* The profile fetch of login (lines 228-235, 241-251).
login_profile ==
    /\ pc = "login_profile"
    /\ \/ \E name \in ProfileUsernames :
             /\ user' = Some([ Get(user) EXCEPT !.username = name ])
             /\ inv' = Returned(Call("profiles_select_id", NoArgs, "data"), LoginWelcome(name))
             /\ processing' = FinallyProcessing
             /\ pc' = "idle"
       \/ /\ user' = Some([ Get(user) EXCEPT !.username = LoginFallbackUsername ])
          /\ inv' = Logged(Call("profiles_select_id", NoArgs, "no_data"))
          /\ pc' = "login_insert"
          /\ UNCHANGED processing
       \/ /\ user' = Some([ Get(user) EXCEPT !.username = LoginFallbackUsername ])
          /\ inv' = Returned(Call("profiles_select_id", NoArgs, "raise"),
                             LoginWelcome(LoginFallbackUsername))
          /\ processing' = FinallyProcessing
          /\ pc' = "idle"
    /\ UNCHANGED << error, success_message, tempVars, fieldVars, cacheVars >>

\* The lazy profile creation of login (lines 236-251).
login_insert ==
    /\ pc = "login_insert"
    /\ \E out \in { "ok", "raise" } :
          inv' = Returned(Call("profiles_insert",
                               Args(<<>>, <<>>, Get(Get(user).username)), out),
                          LoginWelcome(LoginFallbackUsername))
    /\ user' = Some([ Get(user) EXCEPT !.username = LoginFallbackUsername ])
    /\ processing' = FinallyProcessing
    /\ pc' = "idle"
    /\ UNCHANGED << error, success_message, tempVars, fieldVars, cacheVars >>

----------------------------------------------------------------------------
(* signup                                                                  *)

USERNAME_TAKEN == << "Username already taken" >>

INVALID_EMAIL == << "Please enter a valid email address" >>

EMAIL_REGISTERED == << "Email already registered" >>

GENERIC_ERROR == << "An error occurred. Please try again." >>

SIGNUP_FAILED == << "Signup failed" >>

PASSWORD_REJECTED == << "Password does not meet requirements" >>

SignupRejectsUsername_skipped(u) == FALSE

\* if not is_valid (lines 264-266).
SignupRejectsUsername(u) == ~ validate(u).valid

UsernameTaken_ignored(out) == FALSE

\* if existing_profile.data (line 272).
UsernameTaken(out) == out = "taken"

\* handle_signup_form (lines 430-461) and _signup up to its first backend
\* call (lines 258-268).  op is "signup_form" when the form checks reject
\* the fields and _signup is not called, "signup" when _signup is called
\* with the submitted form_data.
handle_signup_form ==
    /\ pc = "idle"
    /\ email_touched' = TRUE
    /\ username_touched' = TRUE
    /\ password_touched' = TRUE
    /\ LET f == FormValidation(TRUE, TRUE, TRUE)
       IN  /\ username_cache' = f.username_cache
           /\ password_cache' = f.password_cache
           /\ \E e \in FormEmails : \E u \in FormUsernames : \E p \in FormPasswords :
                LET rejected(msg) ==
                        /\ error' = Some(msg)
                        /\ inv' = [ NewInv("signup_form", Args(e, p, u))
                                      EXCEPT !.result = "returned",
                                             !.events = << Toast("error", msg) >> ]
                        /\ pc' = "idle"
                        /\ UNCHANGED processing
                IN  IF ~ f.state.email.valid THEN rejected(f.state.email.message)
                    ELSE IF ~ f.state.username.valid THEN rejected(f.state.username.message)
                    ELSE IF ~ f.state.password.valid THEN rejected(PASSWORD_REJECTED)
                    ELSE IF SignupRejectsUsername(u)
                    THEN /\ error' = Some(validate(u).message)
                         /\ inv' = [ NewInv("signup", Args(e, p, u))
                                       EXCEPT !.result = "returned",
                                              !.events = << Toast("error", validate(u).message) >> ]
                         /\ processing' = FinallyProcessing
                         /\ pc' = "idle"
                    ELSE /\ error' = None
                         /\ inv' = NewInv("signup", Args(e, p, u))
                         /\ processing' = TRUE
                         /\ pc' = "signup_lookup"
    /\ UNCHANGED << user, success_message, tempVars, email, username, password >>

\* The availability lookup (lines 270-274) and what leaves it: a taken
\* name, a free name, an AuthWeakPasswordError (caught at line 344), any other
\* exception (caught nowhere, passes through the finally clause).
signup_lookup ==
    /\ pc = "signup_lookup"
    /\ LET arg == Args(<<>>, <<>>, inv.args.username)
       IN  \/ \E out \in { "taken", "free" } :
                IF UsernameTaken(out)
                THEN /\ error' = Some(USERNAME_TAKEN)
                     /\ inv' = Returned(Call("profiles_select_username", arg, out),
                                        << Toast("error", USERNAME_TAKEN) >>)
                     /\ processing' = FinallyProcessing
                     /\ pc' = "idle"
                ELSE /\ inv' = Logged(Call("profiles_select_username", arg, out))
                     /\ pc' = "signup_sign_up"
                     /\ UNCHANGED << error, processing >>
           \/ \E msg \in WeakPasswordMessages :
                /\ error' = Some(_format_password_requirements(msg))
                /\ inv' = Returned(CallMsg("profiles_select_username", arg,
                                           "raise_weak_password", msg),
                                   << Toast("error", _format_password_requirements(msg)) >>)
                /\ processing' = FinallyProcessing
                /\ pc' = "idle"
           \/ /\ inv' = Raised(Call("profiles_select_username", arg, "raise"))
              /\ processing' = FinallyProcessing
              /\ pc' = "idle"
              /\ UNCHANGED error
    /\ UNCHANGED << user, success_message, tempVars, fieldVars, cacheVars >>

SignedUpTempEmail_stored == Some(inv.args.email)

\* temp_email after sign_up created the identity: _signup assigns neither
\* temp_email nor temp_username (lines 258-349).
SignedUpTempEmail == temp_email

SignUpErrorMessage_generic(kind, msg) == GENERIC_ERROR

\* The message the handler of sign_up's exceptions (lines 282-296) gives an
\* exception of each kind.  An AuthWeakPasswordError is an Exception whose
\* text has neither "invalid format" nor "User already registered", so the
\* inner handler takes it in its last branch.
SignUpErrorMessage(kind, msg) ==
    CASE kind = "raise_invalid_format"     -> INVALID_EMAIL
      [] kind = "raise_already_registered" -> EMAIL_REGISTERED
      [] OTHER                             -> GENERIC_ERROR

\* sign_up (lines 276-300).
signup_sign_up ==
    /\ pc = "signup_sign_up"
    /\ LET arg == Args(inv.args.email, inv.args.password, <<>>)
           failed(c, msg, events) ==
               /\ error' = Some(msg)
               /\ inv' = Returned(c, events)
               /\ processing' = FinallyProcessing
               /\ pc' = "idle"
               /\ UNCHANGED temp_email
       IN  \/ \E kind \in { "raise_invalid_format", "raise" } :
                failed(Call("sign_up", arg, kind), SignUpErrorMessage(kind, <<>>),
                       << Toast("error", SignUpErrorMessage(kind, <<>>)) >>)
           \/ failed(Call("sign_up", arg, "raise_already_registered"),
                     SignUpErrorMessage("raise_already_registered", <<>>),
                     << Toast("info", << "Email already registered. Please login." >>),
                        Redirect("/login") >>)
           \/ \E msg \in WeakPasswordMessages :
                failed(CallMsg("sign_up", arg, "raise_weak_password", msg),
                       SignUpErrorMessage("raise_weak_password", msg),
                       << Toast("error", SignUpErrorMessage("raise_weak_password", msg)) >>)
           \/ failed(Call("sign_up", arg, "no_user"), SIGNUP_FAILED,
                     << Toast("error", SIGNUP_FAILED) >>)
           \/ /\ \E id \in UserIds :
                    inv' = [ Logged(Call("sign_up", arg, "ok"))
                               EXCEPT !.auth_user = Some(User(id, inv.args.email, None)) ]
              /\ pc' = "signup_insert"
              /\ temp_email' = SignedUpTempEmail
              /\ UNCHANGED << error, processing >>
    /\ UNCHANGED << user, success_message, temp_username, fieldVars, cacheVars >>

\* The profile insert of signup (lines 302-315): its failure is logged only.
signup_insert ==
    /\ pc = "signup_insert"
    /\ \E out \in { "ok", "no_data", "raise" } :
          inv' = Logged(Call("profiles_insert",
                             Args(<<>>, <<>>, sanitize(inv.args.username)), out))
    /\ pc' = "signup_sign_in"
    /\ UNCHANGED << authVars, tempVars, fieldVars, cacheVars >>

AutoLoginFailedUser_set ==
    Some(User(Get(inv.auth_user).id, Get(inv.auth_user).email,
              Some(sanitize(inv.args.username))))

\* The value of user when the sign-in after signup raised (lines 337-342).
AutoLoginFailedUser == user

\* The sign-in after signup (lines 317-342, 348-349).
signup_sign_in ==
    /\ pc = "signup_sign_in"
    /\ LET arg == Args(inv.args.email, inv.args.password, <<>>)
           sanitized_username == sanitize(inv.args.username)
       IN  \/ /\ \E out \in { "raise", "bad_user" } :
                    inv' = Returned(Call("sign_in", arg, out),
                                    << Toast("success", << "Account created! Please log in." >>),
                                       Redirect("/login") >>)
              /\ user' = AutoLoginFailedUser
           \/ /\ \E out \in { "ok", "no_user" } :
                    inv' = Returned(Call("sign_in", arg, out),
                                    << Toast("success",
                                             << "Welcome " >> \o sanitized_username \o << "!" >>),
                                       Redirect("/") >>)
              /\ user' = Some(User(Get(inv.auth_user).id, Get(inv.auth_user).email,
                                   Some(sanitized_username)))
    /\ processing' = FinallyProcessing
    /\ pc' = "idle"
    /\ UNCHANGED << error, success_message, tempVars, fieldVars, cacheVars >>

----------------------------------------------------------------------------
(* verify_otp, resend_otp, logout                                          *)

SIGN_UP_AGAIN == << Toast("error", << "Please sign up again" >>), Redirect("/signup") >>

INVALID_CODE == << "Invalid or expired code" >>

RefusedVerifyError_cleared == None

\* The value of error when verify_otp refuses to run: the refusal (lines
\* 353-357) returns before error is cleared at line 360.
RefusedVerifyError == error

\* verify_otp up to its backend call (lines 351-360); handle_verify_form
\* (lines 466-469) passes the token through.
verify_otp ==
    /\ pc = "idle"
    /\ IF ~ Truthy(temp_email) \/ ~ Truthy(temp_username)
       THEN /\ inv' = [ NewInv("verify_otp", NoArgs)
                          EXCEPT !.result = "returned", !.events = SIGN_UP_AGAIN ]
            /\ error' = RefusedVerifyError
            /\ UNCHANGED << processing, pc >>
       ELSE /\ inv' = NewInv("verify_otp", NoArgs)
            /\ processing' = TRUE
            /\ error' = None
            /\ pc' = "verify_otp_call"
    /\ UNCHANGED << user, success_message, tempVars, fieldVars, cacheVars >>

\* supabase.auth.verify_otp (lines 361-369, 384-388).
verify_otp_call ==
    /\ pc = "verify_otp_call"
    /\ LET arg == Args(Get(temp_email), <<>>, <<>>)
       IN  \/ /\ inv' = Returned(Call("verify_otp", arg, "raise"),
                                 << Toast("error", INVALID_CODE) >>)
              /\ error' = Some(INVALID_CODE)
              /\ processing' = FinallyProcessing
              /\ pc' = "idle"
           \/ /\ inv' = Returned(Call("verify_otp", arg, "no_user"), <<>>)
              /\ processing' = FinallyProcessing
              /\ pc' = "idle"
              /\ UNCHANGED error
           \/ /\ \E id \in UserIds :
                    inv' = [ Logged(Call("verify_otp", arg, "ok"))
                               EXCEPT !.auth_user = Some(User(id, Get(temp_email), None)) ]
              /\ pc' = "verify_otp_insert"
              /\ UNCHANGED << error, processing >>
    /\ UNCHANGED << user, success_message, tempVars, fieldVars, cacheVars >>

\* The profile insert of verify_otp (lines 370-388).
verify_otp_insert ==
    /\ pc = "verify_otp_insert"
    /\ LET arg == Args(<<>>, <<>>, Get(temp_username))
       IN  \/ /\ inv' = Returned(Call("profiles_insert", arg, "ok"),
                                 << Toast("success", << "Email verified successfully!" >>),
                                    Redirect("/login") >>)
              /\ temp_email' = None
              /\ temp_username' = None
              /\ UNCHANGED error
           \/ /\ inv' = Returned(Call("profiles_insert", arg, "raise"),
                                 << Toast("error", INVALID_CODE) >>)
              /\ error' = Some(INVALID_CODE)
              /\ UNCHANGED tempVars
    /\ processing' = FinallyProcessing
    /\ pc' = "idle"
    /\ UNCHANGED << user, success_message, fieldVars, cacheVars >>

\* resend_otp (lines 390-404).
resend_otp ==
    /\ pc = "idle"
    /\ IF ~ Truthy(temp_email)
       THEN inv' = [ NewInv("resend_otp", NoArgs)
                       EXCEPT !.result = "returned", !.events = SIGN_UP_AGAIN ]
       ELSE LET i == NewInv("resend_otp", NoArgs)
                arg == Args(Get(temp_email), <<>>, <<>>)
            IN  \/ inv' = [ i EXCEPT !.calls = << Call("resend_signup_otp", arg, "ok") >>,
                                     !.result = "returned",
                                     !.events = << Toast("success",
                                                         << "New code sent to your email" >>) >> ]
                \/ inv' = [ i EXCEPT !.calls = << Call("resend_signup_otp", arg, "raise") >>,
                                     !.result = "returned",
                                     !.events = << Toast("error", << "Error sending code" >>) >> ]
    /\ UNCHANGED << authVars, tempVars, fieldVars, cacheVars, pc >>

\* The value of user after a sign_out that raised (lines 415-417).
LogoutFailedUser == user

\* logout (lines 406-417).
logout ==
    /\ pc = "idle"
    /\ LET i == NewInv("logout", NoArgs)
       IN  \/ /\ \E out \in { "ok", "error_returned" } :
                    inv' = [ i EXCEPT !.calls = << Call("sign_out", NoArgs, out) >>,
                                      !.result = "returned",
                                      !.events = << Toast("info", << "Logged out successfully" >>),
                                                    Redirect("/login") >> ]
              /\ user' = None
              /\ UNCHANGED error
           \/ \E msg \in SignOutErrors :
                /\ inv' = [ i EXCEPT !.calls = << CallMsg("sign_out", NoArgs, "raise", msg) >>,
                                     !.result = "returned",
                                     !.events = << Toast("error", msg) >> ]
                /\ user' = LogoutFailedUser
                /\ error' = Some(msg)
    /\ UNCHANGED << processing, success_message, tempVars, fieldVars, cacheVars, pc >>

----------------------------------------------------------------------------
(* Entering the pending-verification state.  No handler of AuthState       *)
(* assigns temp_email or temp_username; they are state vars of the session *)
(* that only the framework's generated setters can assign.                 *)

PendingEmails == { << "a","@","b",".","c","o" >> }

PendingUsernames == { << "a","b","c" >> }

set_temp_email ==
    /\ pc = "idle"
    /\ \E value \in PendingEmails :
          /\ temp_email' = Some(value)
          /\ inv' = [ NewInv("set_temp_email", Args(value, <<>>, <<>>))
                        EXCEPT !.result = "returned" ]
    /\ UNCHANGED << authVars, temp_username, fieldVars, cacheVars, pc >>

set_temp_username ==
    /\ pc = "idle"
    /\ \E value \in PendingUsernames :
          /\ temp_username' = Some(value)
          /\ inv' = [ NewInv("set_temp_username", Args(<<>>, <<>>, value))
                        EXCEPT !.result = "returned" ]
    /\ UNCHANGED << authVars, temp_email, fieldVars, cacheVars, pc >>

----------------------------------------------------------------------------
(* Specifications                                                          *)

\* The handlers the session exposes to the UI.  The backend steps of
\* verify_otp start from a pending verification, which none of these
\* handlers creates; they are steps of NextPending.
Next ==
    \/ handle_email_change
    \/ handle_username_change
    \/ handle_password_change
    \/ form_validation_state
    \/ on_load
    \/ on_load_profile
    \/ handle_login_form
    \/ login_sign_in
    \/ login_profile
    \/ login_insert
    \/ handle_signup_form
    \/ signup_lookup
    \/ signup_sign_up
    \/ signup_insert
    \/ signup_sign_in
    \/ verify_otp
    \/ resend_otp
    \/ logout

Spec == Init /\ [][Next]_vars

\* The same session when a verification can be pending.
NextPending ==
    \/ Next
    \/ set_temp_email
    \/ set_temp_username
    \/ verify_otp_call
    \/ verify_otp_insert

SpecPending == Init /\ [][NextPending]_vars

----------------------------------------------------------------------------
(* Filling a cache.  The client types usernames (or passwords) one after   *)
(* the other into the signup form; after each change the framework renders *)
(* the form and reads form_validation_state.  The values typed are fresh   *)
(* ones in a fixed order, the first one again, and one too short to cache. *)
(* _validate_username touches only the username cache and                  *)
(* _validate_password only the password cache, so a session here fills one *)
(* of the two.                                                             *)

\* How many distinct fresh values the client types at most.
MaxFresh == 1002

LetterIndex(c) == CHOOSE i \in DOMAIN AsciiLowerSeq : AsciiLowerSeq[i] = c

\* The n-th fresh username: three lower-case letters, n in base 26.
UsernameKey(n) ==
    << AsciiLowerSeq[((n \div 676) % 26) + 1],
       AsciiLowerSeq[((n \div 26) % 26) + 1],
       AsciiLowerSeq[(n % 26) + 1] >>

\* The n-th fresh password: five characters.
PasswordKey(n) == << "P", "1" >> \o UsernameKey(n)

ShortUsername == << "a", "b" >>

ShortPassword == << "P", "1", "a", "b" >>

\* The number of a fresh value, -1 for any other string.
UsernameKeyIndex(k) ==
    IF Len(k) = 3 /\ AllIn(k, AsciiLower)
    THEN (LetterIndex(k[1]) - 1) * 676 + (LetterIndex(k[2]) - 1) * 26 + LetterIndex(k[3]) - 1
    ELSE -1

PasswordKeyIndex(k) ==
    IF Len(k) = 5 /\ k[1] = "P" /\ k[2] = "1" THEN UsernameKeyIndex(SubSeq(k, 3, 5)) ELSE -1

Max(a, b) == IF a > b THEN a ELSE b

\* The largest number among the keys of the two newest entries of a cache.  A
\* fresh key is typed only after the previous one was rendered, so the newest
\* entry is the last fresh key, or the re-typed first key right after it.
NewestUsernameIndex ==
    LET n == Len(username_cache)
    IN  Max(IF n >= 1 THEN UsernameKeyIndex(username_cache[n].key) ELSE -1,
            IF n >= 2 THEN UsernameKeyIndex(username_cache[n - 1].key) ELSE -1)

NewestPasswordIndex ==
    LET n == Len(password_cache)
    IN  Max(IF n >= 1 THEN PasswordKeyIndex(password_cache[n].key) ELSE -1,
            IF n >= 2 THEN PasswordKeyIndex(password_cache[n - 1].key) ELSE -1)

\* The number of the next fresh username / password: one more than the
\* largest typed so far.
NextUsernameIndex == 1 + Max(UsernameKeyIndex(username), NewestUsernameIndex)

NextPasswordIndex == 1 + Max(PasswordKeyIndex(password), NewestPasswordIndex)

TypedUsernames ==
    LET n == NextUsernameIndex
    IN  { UsernameKey(0), ShortUsername }
        \cup (IF n < MaxFresh THEN { UsernameKey(n) } ELSE {})

TypedPasswords ==
    LET n == NextPasswordIndex
    IN  { PasswordKey(0), ShortPassword }
        \cup (IF n < MaxFresh THEN { PasswordKey(n) } ELSE {})

\* The form has been rendered since the last change.
Rendered == inv.op \in { "init", "form_validation_state" }

type_username ==
    /\ Rendered
    /\ ~ password_touched
    /\ UsernameChange(TypedUsernames)

type_password ==
    /\ Rendered
    /\ ~ username_touched
    /\ PasswordChange(TypedPasswords)

render_form ==
    /\ ~ Rendered
    /\ form_validation_state

NextCache ==
    \/ type_username
    \/ type_password
    \/ render_form

SpecCache == Init /\ [][NextCache]_vars

----------------------------------------------------------------------------
(* UsernameValidator on its own: a caller holds a string and calls         *)
(* validate on it.  The validator keeps no state between calls.            *)

\* Every string of up to MaxShort characters of the alphabet is an input.
MaxShort == 2

\* The longest input.
MaxLong == 32

ValidatorAlphabet == { "a", "Z", "1", "_", "@", "FW_a", "LIG_fi", "CYR_e", "NL" }

ShortInputs == UNION { [ 1..n -> ValidatorAlphabet ] : n \in 0..MaxShort }

Repeat(c, n) == [ i \in 1..n |-> c ]

\* Inputs around MAX_LENGTH: a first character followed by one character
\* repeated.
LongInputs ==
    { << h >> \o Repeat(c, n - 1) :
        h \in { "a", "1", "FW_a", "LIG_fi" }, c \in { "a", "_", "@" }, n \in 29..MaxLong }

\* Inputs of valid length: reserved words in lower and mixed case, and names
\* of three characters.
MidInputs ==
    reserved_words
    \cup { << "A","d","m","i","n" >>, << "W","W","W" >>, << "r","O","O","t" >>,
           << "a","b","c" >>, << "a","_","1" >>, << "1","a","b" >>, << "_","a","b" >>,
           << "a","b","@" >>, << "a","b","NL" >>, << "FW_a","b","c" >>,
           << "a","LIG_fi" >>, << "CYR_e","b","c" >>, << "a","d","m","i","n","1" >>,
           << "a","b","c","NL" >>, << "a","d","m","i","n","NL" >>, << "a","b","c","@" >>,
           << "a","CYR_e","c" >>, << "a","b","c","FW_a" >>, << "U","s","e","r","@","N" >> }

\* Reserved words of up to MaxMixLen letters are tried in every mix of upper
\* and lower case.
MaxMixLen == 5

\* w with the letters at the positions S in upper case.
Capitalised(w, S) == [ i \in DOMAIN w |-> IF i \in S THEN UpperChar(w[i]) ELSE w[i] ]

CaseMixes ==
    { Capitalised(w, S) :
        w \in { r \in reserved_words : Len(r) <= MaxMixLen }, S \in SUBSET (1..MaxMixLen) }
    \cup { Capitalised(w, S) : w \in reserved_words, S \in { {1}, 1..13 } }

ValidatorInputs == ShortInputs \cup LongInputs \cup MidInputs \cup CaseMixes

\* A session as constructed, and a caller about to call the validator on
\* one of the inputs.
InitValidator ==
    /\ user = None
    /\ processing = FALSE
    /\ error = None
    /\ success_message = None
    /\ temp_email = None
    /\ temp_username = None
    /\ email = <<>>
    /\ username = <<>>
    /\ password = <<>>
    /\ email_touched = FALSE
    /\ username_touched = FALSE
    /\ password_touched = FALSE
    /\ username_cache = <<>>
    /\ password_cache = <<>>
    /\ pc = "idle"
    /\ \E name \in ValidatorInputs :
          inv = [ op |-> "input", args |-> Args(<<>>, <<>>, name), calls |-> <<>>,
                  result |-> "running", events |-> <<>>, user0 |-> None,
                  auth_user |-> None, ret |-> None ]

\* UsernameValidator().validate(name)
call_validate ==
    /\ inv.op = "input"
    /\ inv' = [ inv EXCEPT !.op = "validate", !.result = "returned",
                           !.ret = Some(validate(inv.args.username)) ]
    /\ UNCHANGED << authVars, tempVars, fieldVars, cacheVars, pc >>

\* UsernameValidator().sanitize(name)
call_sanitize ==
    /\ inv.op = "input"
    /\ inv' = [ inv EXCEPT !.op = "sanitize", !.result = "returned",
                           !.ret = Some(sanitize(inv.args.username)) ]
    /\ UNCHANGED << authVars, tempVars, fieldVars, cacheVars, pc >>

\* sanitize called on what sanitize returned.
call_sanitize_again ==
    /\ inv.op = "sanitize"
    /\ inv' = [ inv EXCEPT !.op = "sanitize_again",
                           !.args = Args(<<>>, <<>>, Get(inv.ret)),
                           !.ret = Some(sanitize(Get(inv.ret))) ]
    /\ UNCHANGED << authVars, tempVars, fieldVars, cacheVars, pc >>

NextValidator ==
    \/ call_validate
    \/ call_sanitize
    \/ call_sanitize_again

SpecValidator == InitValidator /\ [][NextValidator]_vars

----------------------------------------------------------------------------
(* The password field on its own: the client types one password into the   *)
(* signup form and the framework renders the form.                         *)

PasswordAlphabet == { "a", "A", "1", "!", "_", "CYR_e" }

\* Every string of up to MaxShortPassword characters of the alphabet.
MaxShortPassword == 2

ShortPasswords == UNION { [ 1..n -> PasswordAlphabet ] : n \in 0..MaxShortPassword }

\* One character of each kind the checks look for.
KindChars == << "a", "A", "1", "!" >>

\* The characters of the kinds K in the order of KindChars.
RECURSIVE KindString(_, _)
KindString(K, i) ==
    IF i > Len(KindChars) THEN <<>>
    ELSE (IF i \in K THEN << KindChars[i] >> ELSE <<>>) \o KindString(K, i + 1)

\* The longest password typed.
MaxPasswordLen == 9

\* Passwords of 7 to MaxPasswordLen characters holding exactly the kinds K:
\* one character of each kind, then the first one repeated.
LongPasswords ==
    { KindString(K, 1) \o Repeat(KindString(K, 1)[1], n - Cardinality(K)) :
        K \in (SUBSET (1..4)) \ { {} }, n \in 7..MaxPasswordLen }

PasswordInputs == ShortPasswords \cup LongPasswords

enter_password ==
    /\ ~ password_touched
    /\ PasswordChange(PasswordInputs)

show_password_state ==
    /\ inv.op = "handle_password_change"
    /\ form_validation_state

NextPassword ==
    \/ enter_password
    \/ show_password_state

SpecPassword == Init /\ [][NextPassword]_vars

----------------------------------------------------------------------------
(* Properties                                                              *)

\* The handler op has run to its end and nothing ran since.
Done(op) == pc = "idle" /\ inv.op = op /\ inv.result /= "running"

\* The invocation made the backend call `name` and it ended in one of outs.
HasCall(name, outs) ==
    \E i \in DOMAIN inv.calls : inv.calls[i].name = name /\ inv.calls[i].out \in outs

Called(name) == \E i \in DOMAIN inv.calls : inv.calls[i].name = name

LoginRejected == Done("login") /\ HasCall("sign_in", { "raise", "no_user" })

\* C1 as stated: after a login the backend rejected, user is absent, error is
\* "Invalid email or password" and processing is false, whatever the session
\* state the login started from.
C1_RejectedLoginUserAbsent ==
    LoginRejected =>
        /\ user = None
        /\ error = Some(INVALID_LOGIN)
        /\ processing = FALSE

\* C1 amended: after a login the backend rejected, user is what it was when
\* login was invoked (absent if it was absent), error is "Invalid email or
\* password" and processing is false.
C1_RejectedLoginUserUnchanged ==
    LoginRejected =>
        /\ user = inv.user0
        /\ error = Some(INVALID_LOGIN)
        /\ processing = FALSE

C1_Witness == LoginRejected /\ inv.user0 /= None

\* C2: every invocation of login and of signup ends with processing false,
\* on every path: success, local rejection, backend rejection, profile
\* failure, and an exception that leaves the handler.
C2_ProcessingClearedAtExit ==
    (pc = "idle" /\ inv.op \in { "login", "signup", "signup_form" }) => processing = FALSE

C2_Witness ==
    /\ Done("signup")
    /\ inv.result = "raised"
    /\ HasCall("profiles_select_username", { "raise" })

\* C3: a signup whose availability lookup reports the name taken ends with
\* error "Username already taken" and issues no identity creation, profile
\* insert or sign-in; and in every signup the lookup precedes the identity
\* creation.
C3_TakenUsernameShortCircuits ==
    /\ (Done("signup") /\ HasCall("profiles_select_username", { "taken" })) =>
          /\ error = Some(USERNAME_TAKEN)
          /\ ~ Called("sign_up")
          /\ ~ Called("profiles_insert")
          /\ ~ Called("sign_in")
    /\ inv.op = "signup" =>
          \A i \in DOMAIN inv.calls :
              inv.calls[i].name = "sign_up" =>
                  \E j \in 1..(i - 1) :
                      /\ inv.calls[j].name = "profiles_select_username"
                      /\ inv.calls[j].out = "free"

C3_Witness == Done("signup") /\ HasCall("profiles_select_username", { "taken" })

\* C4: a signup invoked with a username the validator rejects makes no
\* backend call, ends with error equal to the validator's message for that
\* username, and leaves user as it was.
C4_InvalidUsernameRejectedLocally ==
    (Done("signup") /\ ~ validate(inv.args.username).valid) =>
        /\ inv.calls = <<>>
        /\ error = Some(validate(inv.args.username).message)
        /\ user = inv.user0
        /\ inv.result = "returned"

C4_Witness ==
    /\ Done("signup")
    /\ ~ validate(inv.args.username).valid
    /\ inv.calls = <<>>
    /\ error = Some(ERROR_RESERVED)

\* C5 as stated: when sign_up fails with a weak-password failure, signup ends
\* with error equal to the bulleted list built from the backend's message,
\* user unchanged and processing false.
C5_WeakPasswordBulleted ==
    \A i \in DOMAIN inv.calls :
        (/\ Done("signup")
         /\ inv.calls[i].name = "sign_up"
         /\ inv.calls[i].out = "raise_weak_password") =>
            /\ error = Some(_format_password_requirements(inv.calls[i].msg))
            /\ user = inv.user0
            /\ processing = FALSE

\* C6 as stated: no session operation lets a failure reach its caller,
\* whatever a backend call does.
C6_NoFailurePropagates == inv.result /= "raised"

\* C7 as stated: when the primary backend call succeeded and only the profile
\* call fails, login ends with user present under the fallback username and
\* no error, signup goes on to its sign-in, and verify_otp ends with
\* temp_email/temp_username cleared and no error.
C7_ProfileFailureNotFatal ==
    /\ (/\ Done("login")
        /\ HasCall("sign_in", { "ok" })
        /\ \/ HasCall("profiles_select_id", { "raise" })
           \/ HasCall("profiles_insert", { "raise" })) =>
          /\ user /= None
          /\ Get(user).username = Some(EmailPrefix(inv.args.email))
          /\ error = None
    /\ (Done("signup") /\ HasCall("profiles_insert", { "raise", "no_data" })) =>
          Called("sign_in")
    /\ (/\ Done("verify_otp")
        /\ HasCall("verify_otp", { "ok" })
        /\ HasCall("profiles_insert", { "raise" })) =>
          /\ temp_email = None
          /\ temp_username = None
          /\ error = None

\* C8 as stated: after logout user is absent whatever sign_out did, and when
\* sign_out raised error is set as well.
C8_LogoutClearsUser ==
    Done("logout") =>
        /\ user = None
        /\ HasCall("sign_out", { "raise" }) => error /= None

OnLoadFailed ==
    /\ Done("on_load")
    /\ \/ HasCall("get_session", { "raise", "bad_user" })
       \/ HasCall("profiles_select_id", { "raise" })

\* C9: when a step of on_load fails (get_session raises, the user record
\* cannot be built, the profile lookup raises), on_load returns normally and
\* user is absent afterwards.
C9_FailedRestoreLeavesNoUser ==
    OnLoadFailed => (user = None /\ inv.result = "returned")

C9_Witness ==
    /\ Done("on_load")
    /\ HasCall("get_session", { "ok" })
    /\ HasCall("profiles_select_id", { "raise" })
    /\ inv.user0 /= None

\* The invocation that just ended failed: a refused precondition, a backend
\* rejection, a backend call that returned no identity, a failed sign-in
\* after signup, or an exception.
EndedInFailure ==
    /\ pc = "idle"
    /\ \/ inv.op = "login" /\ HasCall("sign_in", { "raise", "no_user", "bad_user" })
       \/ inv.op = "signup_form"
       \/ inv.op = "signup" /\ ~ HasCall("sign_in", { "ok", "no_user" })
       \/ inv.op = "verify_otp" /\ ~ HasCall("profiles_insert", { "ok" })
       \/ inv.op = "resend_otp" /\ ~ HasCall("resend_signup_otp", { "ok" })
       \/ inv.op = "logout" /\ HasCall("sign_out", { "raise" })

\* C10 as stated: every invocation that ends in failure ends with error set,
\* or with success_message set for the softer outcome.
C10_FailureSetsErrorOrMessage ==
    EndedInFailure => (error /= None \/ success_message /= None)

SignUpRaised(kind) == Done("signup") /\ HasCall("sign_up", { kind })

AutoLoginRaised ==
    /\ Done("signup")
    /\ HasCall("sign_up", { "ok" })
    /\ HasCall("sign_in", { "raise" })

C13_RefusedVerifyChangesNothing ==
    [][ (/\ pc = "idle"
         /\ inv'.op = "verify_otp"
         /\ ~ Truthy(temp_email) \/ ~ Truthy(temp_username)) =>
            /\ pc' = "idle"
            /\ inv'.calls = <<>>
            /\ inv'.result = "returned"
            /\ inv'.events = << Toast("error", << "Please sign up again" >>),
                                Redirect("/signup") >>
            /\ UNCHANGED << user, processing, error, temp_email, temp_username >> ]_vars

C13_Witness ==
    /\ Done("verify_otp")
    /\ inv.calls = <<>>
    /\ Truthy(temp_email)
    /\ ~ Truthy(temp_username)
    /\ error /= None
    /\ user /= None

\* C14 as stated: verify_otp invoked with temp_email and temp_username set,
\* whose verify call raises or returns no identity, ends with error "Invalid
\* or expired code", temp_email and temp_username still set, no profile
\* inserted and processing false.
C14_FailedVerifySetsError ==
    (Done("verify_otp") /\ HasCall("verify_otp", { "raise", "no_user" })) =>
        /\ error = Some(<< "Invalid or expired code" >>)
        /\ Truthy(temp_email)
        /\ Truthy(temp_username)
        /\ ~ Called("profiles_insert")
        /\ processing = FALSE

\* C15: in every reachable state the username cache and the password cache
\* each hold at most 1000 entries, also after more than 1000 distinct
\* cacheable values were validated.
C15_CacheBounded ==
    /\ Len(username_cache) <= 1000
    /\ Len(password_cache) <= 1000

\* The 1001st distinct username has been validated and the oldest entry is
\* gone.
C15_Witness ==
    /\ Done("form_validation_state")
    /\ username = UsernameKey(1000)
    /\ Len(username_cache) = 1000
    /\ username_cache[1000].key = UsernameKey(1000)
    /\ username_cache[1].key = UsernameKey(1)

\* A read of form_validation_state.
RenderStep == pc = "idle" /\ inv'.op = "form_validation_state"

\* C16 as stated: every key of the username cache is longer than 3 and every
\* key of the password cache is longer than 5.
C16_KeysExceedThreeAndFive ==
    /\ \A i \in DOMAIN username_cache : Len(username_cache[i].key) > 3
    /\ \A i \in DOMAIN password_cache : Len(password_cache[i].key) > 5

\* C16 amended: every key of the username cache has at least 3 characters
\* and every key of the password cache at least 5; validating a touched
\* username shorter than 3 or a touched password shorter than 5 returns its
\* validation result and leaves the cache as it was.
C16_ShortInputsNotCached ==
    [][ /\ \A i \in DOMAIN username_cache' : Len(username_cache'[i].key) >= 3
        /\ \A i \in DOMAIN password_cache' : Len(password_cache'[i].key) >= 5
        /\ (RenderStep /\ username_touched /\ Len(username) < 3) =>
               /\ Get(inv'.ret).username = validate(username)
               /\ username_cache' = username_cache
        /\ (RenderStep /\ password_touched /\ Len(password) < 5) =>
               /\ Get(inv'.ret).password = PasswordState(password)
               /\ password_cache' = password_cache
      ]_vars

\* A two-character username was validated while the cache holds a
\* three-character key.
C16_Witness ==
    /\ Done("form_validation_state")
    /\ username_touched
    /\ username = ShortUsername
    /\ Get(inv.ret).username = [ valid |-> FALSE, message |-> ERROR_LENGTH ]
    /\ \E i \in DOMAIN username_cache : Len(username_cache[i].key) = 3

\* C17: a read of form_validation_state returns, for every field whose
\* touched flag is false, the permissive default (valid, empty message, and
\* for the password show_requirements false), and leaves that field's cache
\* as it was, whatever the other fields and the caches hold.
C17_UntouchedFieldPermissive ==
    [][ RenderStep =>
          /\ ~ username_touched =>
                 /\ Get(inv'.ret).username = [ valid |-> TRUE, message |-> <<>> ]
                 /\ username_cache' = username_cache
          /\ ~ password_touched =>
                 /\ Get(inv'.ret).password.valid = TRUE
                 /\ Get(inv'.ret).password.message = <<>>
                 /\ Get(inv'.ret).password.show_requirements = FALSE
                 /\ password_cache' = password_cache
          /\ ~ email_touched =>
                 Get(inv'.ret).email = [ valid |-> TRUE, message |-> <<>> ]
      ]_vars

\* The form was read with the username and the email untouched while the
\* password was touched and its cache filled.
C17_Witness ==
    /\ Done("form_validation_state")
    /\ ~ username_touched
    /\ ~ email_touched
    /\ password_touched
    /\ password_cache /= <<>>
    /\ username_cache = <<>>
    /\ Get(inv.ret).username.valid
    /\ Get(inv.ret).email.valid

\* What a field handler leaves alone besides the three fields: user,
\* processing, success_message, temp_email, temp_username, the two caches;
\* and it makes no backend call and returns at once.
FieldChangeFrame ==
    /\ UNCHANGED << user, processing, success_message, temp_email, temp_username,
                    username_cache, password_cache >>
    /\ inv'.calls = <<>>
    /\ inv'.result = "returned"
    /\ pc' = "idle"

\* C18: a field handler sets the field's value to the value given, the
\* field's touched flag to true and error to absent; the other two fields'
\* values and touched flags, user, processing, success_message, temp_email,
\* temp_username and both caches stay as they were, and no backend call is
\* made.
C18_FieldChangeFrame ==
    [][ /\ (pc = "idle" /\ inv'.op = "handle_email_change") =>
               /\ email' = inv'.args.email
               /\ email_touched' = TRUE
               /\ error' = None
               /\ UNCHANGED << username, password, username_touched, password_touched >>
               /\ FieldChangeFrame
        /\ (pc = "idle" /\ inv'.op = "handle_username_change") =>
               /\ username' = inv'.args.username
               /\ username_touched' = TRUE
               /\ error' = None
               /\ UNCHANGED << email, password, email_touched, password_touched >>
               /\ FieldChangeFrame
        /\ (pc = "idle" /\ inv'.op = "handle_password_change") =>
               /\ password' = inv'.args.password
               /\ password_touched' = TRUE
               /\ error' = None
               /\ UNCHANGED << email, username, email_touched, username_touched >>
               /\ FieldChangeFrame
      ]_vars

\* The username was changed in a session that has a user, an error and a
\* filled password cache behind it.
C18_Witness ==
    /\ Done("handle_username_change")
    /\ username = inv.args.username
    /\ username_touched
    /\ error = None
    /\ user /= None
    /\ password_cache /= <<>>

\* A login, signup or verify_otp invocation is between its start and its end.
AuthOperationInProgress ==
    pc \in { "login_sign_in", "login_profile", "login_insert",
             "signup_lookup", "signup_sign_up", "signup_insert", "signup_sign_in",
             "verify_otp_call", "verify_otp_insert" }

\* C19: processing is true only while a login, signup or verify_otp
\* invocation is in progress; in every state in which none is, processing
\* is false.
C19_ProcessingOnlyDuringOperation ==
    processing => AuthOperationInProgress

\* A verify_otp invocation whose backend call raised has ended.
C19_Witness ==
    /\ Done("verify_otp")
    /\ HasCall("verify_otp", { "raise" })
    /\ ~ AuthOperationInProgress
    /\ ~ processing

\* C20: for every username shorter than 3 or longer than 30 characters,
\* the empty one included and whatever its characters, validate returns
\* invalid with ERROR_LENGTH.
C20_LengthRuleFirst ==
    (Done("validate") /\ (Len(inv.args.username) < 3 \/ Len(inv.args.username) > 30)) =>
        Get(inv.ret) = [ valid |-> FALSE, message |-> ERROR_LENGTH ]

\* validate was called on 31 characters that start with a digit: the
\* length rule and the format rule both fail.
C20_Witness ==
    /\ Done("validate")
    /\ Len(inv.args.username) = 31
    /\ inv.args.username[1] = "1"
    /\ Get(inv.ret).message = ERROR_LENGTH

\* The raw string holds a letter outside ASCII.
HasNonAsciiLetter(s) == \E i \in DOMAIN s : s[i] \in NonAsciiLetter

\* The raw string holds a symbol: a character that is no letter, no digit
\* and not the underscore.
HasSymbol(s) == \E i \in DOMAIN s : ~ isalnum(s[i]) /\ s[i] /= "_"

StartsWithDigitOrUnderscore(s) == s /= <<>> /\ (isdigit(s[1]) \/ s[1] = "_")

\* C21 as stated, for the strings the length rule lets through: every
\* string of 3 to 30 characters that holds a non-ASCII letter or a symbol, or
\* starts with a digit or an underscore, is invalid with ERROR_FORMAT.
C21_UnsafeFormatRejected ==
    ( /\ Done("validate")
      /\ Len(inv.args.username) >= 3
      /\ Len(inv.args.username) <= 30
      /\ \/ HasNonAsciiLetter(inv.args.username)
         \/ HasSymbol(inv.args.username)
         \/ StartsWithDigitOrUnderscore(inv.args.username) ) =>
        Get(inv.ret) = [ valid |-> FALSE, message |-> ERROR_FORMAT ]

\* C22: every username that is a reserved word in some mix of upper and
\* lower case is invalid with ERROR_RESERVED.
C22_ReservedAnyCase ==
    (Done("validate") /\ lower(inv.args.username) \in reserved_words) =>
        Get(inv.ret) = [ valid |-> FALSE, message |-> ERROR_RESERVED ]

C22_Witness ==
    /\ Done("validate")
    /\ inv.args.username = << "A","d","M","i","n" >>
    /\ Get(inv.ret).message = ERROR_RESERVED

\* The three rules of C23 on a raw username.
PassesAllRules(u) ==
    LET n == _normalize_for_storage(u)
    IN  /\ Len(u) >= 3
        /\ Len(u) <= 30
        /\ n /= <<>>
        /\ n[1] \in AsciiLetter
        /\ \A i \in DOMAIN n : n[i] \in AsciiLetter \cup Digit \cup { "_" }
        /\ lower(n) \notin reserved_words

\* C23 as stated: validate returns valid with an empty message exactly for
\* the usernames of raw length 3 to 30 whose normalized form starts with an
\* ASCII letter, holds only ASCII letters, digits and underscores, and in
\* lower case is no reserved word.
C23_ValidExactlyWhenRulesPass ==
    Done("validate") =>
        (Get(inv.ret) = [ valid |-> TRUE, message |-> <<>> ] <=> PassesAllRules(inv.args.username))

\* C24: sanitize applied to what sanitize returned gives it back unchanged.
C24_SanitizeIdempotent ==
    Done("sanitize_again") => Get(inv.ret) = inv.args.username

\* sanitize was applied twice to an input of 30 or more characters that
\* needed the prefix.
C24_Witness ==
    /\ Done("sanitize_again")
    /\ Len(inv.args.username) = 30
    /\ inv.args.username[1] = "u"
    /\ inv.args.username[2] = "1"
    /\ Get(inv.ret) = inv.args.username

\* C25: for a touched password the state returned holds exactly five
\* checks, in the order lower-case letter, upper-case letter, digit, special
\* character (one that is not alphanumeric), at least 8 characters, each
\* decided by the password alone, and the state is valid exactly when all
\* five passed.
C25_FiveChecksInOrder ==
    (Done("form_validation_state") /\ password_touched) =>
        LET st == Get(inv.ret).password
            c  == st.checks
        IN  /\ Len(c) = 5
            /\ c[1].message = << "One lowercase letter" >>
            /\ c[1].passed <=> \E i \in DOMAIN password : islower(password[i])
            /\ c[2].message = << "One uppercase letter" >>
            /\ c[2].passed <=> \E i \in DOMAIN password : isupper(password[i])
            /\ c[3].message = << "One number" >>
            /\ c[3].passed <=> \E i \in DOMAIN password : isdigit(password[i])
            /\ c[4].message = << "One special character" >>
            /\ c[4].passed <=> \E i \in DOMAIN password : ~ isalnum(password[i])
            /\ c[5].message = << "Minimum 8 characters" >>
            /\ c[5].passed <=> Len(password) >= 8
            /\ st.valid <=> \A i \in 1..5 : c[i].passed

\* A password of exactly 8 characters with all four kinds was validated.
C25_Witness ==
    /\ Done("form_validation_state")
    /\ password_touched
    /\ Len(password) = 8
    /\ Get(inv.ret).password.valid
    /\ \A i \in 1..5 : Get(inv.ret).password.checks[i].passed

\* The message a submitted field fails validation with, None when the three
\* submitted values pass: the email first, then the username, then the
\* password.
SubmittedFailure(a) ==
    IF ~ EmailState(TRUE, a.email).valid THEN Some(EmailState(TRUE, a.email).message)
    ELSE IF ~ validate(a.username).valid THEN Some(validate(a.username).message)
    ELSE IF ~ PasswordState(a.password).valid THEN Some(PasswordState(a.password).message)
    ELSE None

\* C26 as stated: a signup submit that makes a backend call was given an
\* email, a username and a password that pass validation; a submit with a
\* value that fails validation makes no backend call and ends with error set
\* to that field's failure message.
C26_OnlyValidatedValuesReachBackend ==
    (inv.op \in { "signup", "signup_form" }) =>
        /\ inv.calls /= <<>> => SubmittedFailure(inv.args) = None
        /\ (pc = "idle" /\ SubmittedFailure(inv.args) /= None) =>
               /\ inv.calls = <<>>
               /\ error = SubmittedFailure(inv.args)

\* C27: in every state the exposed handlers reach, temp_email and
\* temp_username are absent, and no verify_otp or resend_otp invocation has
\* made a backend call or got past its refusal.
C27_NoPendingVerification ==
    /\ temp_email = None
    /\ temp_username = None
    /\ inv.op \in { "verify_otp", "resend_otp" } =>
           /\ inv.calls = <<>>
           /\ inv.events = << Toast("error", << "Please sign up again" >>), Redirect("/signup") >>
           /\ pc = "idle"

\* resend_otp ran after a signup that created the identity and logged in.
C27_Witness ==
    /\ Done("resend_otp")
    /\ user /= None
    /\ Get(user).username = Some(<< "a","b","c" >>)
    /\ inv.calls = <<>>

\* C28: whatever was typed and validated before, evictions included, a read
\* of form_validation_state returns for a touched username what validate
\* gives for the current value and for a touched password the state built
\* from the checks of the current value.
C28_CacheTransparent ==
    Done("form_validation_state") =>
        /\ username_touched => Get(inv.ret).username = validate(username)
        /\ password_touched => Get(inv.ret).password = PasswordState(password)

\* The first username was validated again after 1000 later ones had pushed
\* it out of the cache.
C28_Witness ==
    /\ Done("form_validation_state")
    /\ username = UsernameKey(0)
    /\ Len(username_cache) = 1000
    /\ username_cache[1000].key = UsernameKey(0)
    /\ Get(inv.ret).username = [ valid |-> TRUE, message |-> <<>> ]

\* C29 as stated: the username a signup hands to the profile insert is the
\* string it handed to the availability lookup.
C29_StoredNameIsLookedUpName ==
    inv.op = "signup" =>
        \A i, j \in DOMAIN inv.calls :
            (inv.calls[i].name = "profiles_select_username"
               /\ inv.calls[j].name = "profiles_insert") =>
                inv.calls[j].arg.username = inv.calls[i].arg.username

\* C30 as stated: after on_load has completed, user is present only if
\* get_session reported a session in that call; when it reported none, user
\* is absent, whatever it was before.
C30_UserOnlyFromReportedSession ==
    Done("on_load") => (user /= None => HasCall("get_session", { "ok" }))

====
